---- MODULE Spec2Model ----
(***************************************************************************)
(* A model of the bxt scripting layer: the animation triggers of anim.py,  *)
(* the tracked sound handles of sound.py, the force fields of effectors.py *)
(* and the utility classes of utils.py.                                    *)
(*                                                                         *)
(* Python objects that are shared by reference (triggers, sound handles)   *)
(* live in a heap indexed by an allocation number; lists hold the numbers. *)
(* The host engine (frame clock, animation playback, object destruction,   *)
(* audio playback) is the environment: its steps are actions of their own. *)
(* The game logic is single threaded, so the environment and the           *)
(* application only act while no run_triggers call is in progress; what a  *)
(* callback does during a call is part of the step that fires it.          *)
(* Callbacks are assumed to return normally.                               *)
(***************************************************************************)
EXTENDS Integers, Sequences, FiniteSets, TLC

\* ------------------------------------------------------------ bounds
\* Number of Trigger objects constructed in one behaviour.
MaxTriggers == 2
\* The frame clock stops advancing at this frame number.
MaxFrameNum == 2
\* Number of playbacks started (aud handles created) in one behaviour.
MaxHandles == 2

\* ------------------------------------------------------- value sets
Obs == {"o1", "o2"}
NoOb == "none"
\* The objects that play actions; the others never do (isPlayingAction is
\* False and getActionFrame is 0 on them throughout).
Animated == {"o1"}
Layers == {0}
ActionFrames == {0, 1, 2}
TrigFrames == {1}
Filenames == {"a.ogg", "b.ogg"}
\* Where play_sample meets aud.error: nowhere, before dev.play returns (the
\* sample cannot be opened or started), or setting the 3D properties of the
\* handle it has just started.
Failures == {"none", "open", "locate"}

\* What a callback passed to add_trigger_* may do when it is called: nothing,
\* register a further end trigger on an object, or end an object.  A callback
\* is an arbitrary closure of the application, so what it does is chosen when
\* it is called.
Callbacks ==
    {[op |-> "pass", ob |-> NoOb]}
        \cup {[op |-> "add_trigger_end", ob |-> o] : o \in Obs}
        \cup {[op |-> "endObject", ob |-> o] : o \in Obs}

VARIABLES
    frame_num,      \* Timekeeper().get_frame_num()
    invalid,        \* ob.invalid, per game object
    playing,        \* ob.isPlayingAction(layer)
    actionFrame,    \* ob.getActionFrame(layer)
    triggers,       \* Animator.triggers: dict ob -> list of triggers
    trigObj,        \* the Trigger objects, in order of construction
    calls,          \* number of times each trigger's callback was invoked
    pc,             \* position in run_triggers: "idle", "keys", "triggers"
    keysLeft,       \* rest of list(self.triggers.keys())
    curOb,          \* ob of the outer loop
    trigLeft,       \* rest of list(obTriggers)
    log,            \* what the running run_triggers call has done so far
    called,         \* run_triggers was called in the current frame
    constructed,    \* per trigger: the frame of its construction, and by whom
    handles,            \* sound._handles: list of HandleBXT
    localisable_handles,\* sound._localisable_handles: list of Handle3D
    audHandle,          \* the aud handles, in order of creation
    warnings_printed,   \* sound._warnings_printed
    printed,            \* number of diagnostics printed, per filename
    lastOp,             \* the latest call into the sound module
    worldPosition,      \* ob.worldPosition, per game object
    devLocked,          \* aud.device(): lock() calls not yet unlocked
    updLast             \* the latest update(): what it read, how it left

animVars == <<frame_num, invalid, playing, actionFrame, triggers, trigObj,
              calls, pc, keysLeft, curOb, trigLeft, log>>

soundVars == <<handles, localisable_handles, audHandle, warnings_printed,
               printed, lastOp, worldPosition, devLocked, updLast>>

VARIABLES
    ff,             \* the ForceField object: its class and game properties
    actorPos,       \* actor.worldPosition
    linV,           \* actor.getLinearVelocity(False)
    touched,        \* touchedSingle has run for the actor in this logic tick
    ffLast          \* the latest call into the force field

fieldVars == <<ff, actorPos, linV, touched, ffLast>>

VARIABLES
    queue,          \* WeakPriorityQueue.queue: list of weak references
    priorities,     \* WeakPriorityQueue.priorities: dict ref -> priority
    pushOrder,      \* the queued items in the order of their latest push
    wpqLast         \* the latest call into the queue

wpqVars == <<queue, priorities, pushOrder, wpqLast>>

VARIABLES
    listeners,      \* EventBus.listeners
    eventCache,     \* EventBus.eventCache: dict message -> event
    busStack,       \* the notify calls in progress, the innermost last
    lastSent,       \* per message, the event of the latest notify call made
    busLast         \* the latest replayLast call: what the target received

busVars == <<listeners, eventCache, busStack, lastSent, busLast>>

VARIABLES
    sw,             \* the FuzzySwitch object: delayOn, delayOff, on, current
    onRun,          \* turn_on calls since the last turn_off or construction
    offRun,         \* turn_off calls since the last turn_on or construction
    swLast          \* the latest call into the switch, is_on() before it

swVars == <<sw, onRun, offRun, swLast>>

restVars == <<fieldVars, wpqVars, busVars, swVars>>

vars == <<animVars, called, constructed, soundVars, restVars>>

TrigIds == 1..Len(trigObj)

\* ------------------------------------------------- python list/dict
\* list.remove(x) that removes nothing.
list_remove_nothing(s, x) == s

\* list.remove(x): drops the first element equal to x.
RECURSIVE list_remove(_, _)
list_remove(s, x) ==
    IF s = <<>> THEN <<>>
    ELSE IF Head(s) = x THEN Tail(s)
    ELSE <<Head(s)>> \o list_remove(Tail(s), x)

\* del d[k] that leaves the entry in place.
dict_del_nothing(d, k) == d

\* del d[k]
dict_del(d, k) == [j \in DOMAIN d \ {k} |-> d[j]]

InList(s, x) == \E i \in 1..Len(s) : s[i] = x

InDict(d, x) == \E o \in DOMAIN d : InList(d[o], x)

\* -------------------------------------------------------- triggers
\* A constructor that records no frame number of the clock.
NewTrigger_unstamped(kind, layer, frame, fnum) ==
    [kind |-> kind, layer |-> layer, frame |-> frame, current_frame |-> 0 - 1]

\* Trigger.__init__ and the subclasses' __init__
NewTrigger(kind, layer, frame, fnum) ==
    [kind |-> kind, layer |-> layer, frame |-> frame, current_frame |-> fnum]

\* A trigger object that nothing refers to any more.
Freed == [kind |-> "freed", layer |-> 0, frame |-> 0, current_frame |-> 0]

\* The heap h once the triggers that dict d no longer holds are released.
Collect(h, d) == [t \in DOMAIN h |-> IF InDict(d, t) THEN h[t] ELSE Freed]

\* is_next_frame without its early return.
is_next_frame_always(current_frame, fnum) == TRUE

\* Trigger.is_next_frame: the comparison
is_next_frame(current_frame, fnum) == current_frame # fnum

\* TriggerEnd.evaluate with the test inverted.
TriggerEnd_condition_inverted(isPlaying) == isPlaying

\* TriggerEnd.evaluate: the test on ob.isPlayingAction(self.layer)
TriggerEnd_condition(isPlaying) == ~isPlaying

\* TriggerGTE.evaluate with a strict comparison.
TriggerGTE_condition_strict(af, frame) == af > frame

\* TriggerGTE.evaluate: the test on ob.getActionFrame(self.layer)
TriggerGTE_condition(af, frame) == af >= frame

\* TriggerLT.evaluate with a non-strict comparison.
TriggerLT_condition_lax(af, frame) == af <= frame

\* TriggerLT.evaluate: the test on ob.getActionFrame(self.layer)
TriggerLT_condition(af, frame) == af < frame

\* The condition of trigger record tr on object o, in the current state
Condition(tr, o) ==
    CASE tr.kind = "End" -> TriggerEnd_condition(playing[o][tr.layer])
      [] tr.kind = "GTE" -> TriggerGTE_condition(actionFrame[o][tr.layer], tr.frame)
      [] tr.kind = "LT" -> TriggerLT_condition(actionFrame[o][tr.layer], tr.frame)
      [] OTHER -> FALSE

\* add_trigger that puts the trigger at the front of the list.
add_trigger_front(d, o, t) ==
    IF o \in DOMAIN d
    THEN [d EXCEPT ![o] = <<t>> \o @]
    ELSE [j \in DOMAIN d \cup {o} |-> IF j = o THEN <<t>> ELSE d[j]]

\* Animator.add_trigger on the dict d
add_trigger(d, o, t) ==
    IF o \in DOMAIN d
    THEN [d EXCEPT ![o] = Append(@, t)]
    ELSE [j \in DOMAIN d \cup {o} |-> IF j = o THEN <<t>> ELSE d[j]]

CanConstruct == Len(trigObj) < MaxTriggers

Register(o, tr) ==
    /\ pc = "idle"
    /\ ~invalid[o]
    /\ CanConstruct
    /\ trigObj' = Append(trigObj, tr)
    /\ calls' = Append(calls, 0)
    /\ triggers' = add_trigger(triggers, o, Len(trigObj) + 1)
    /\ UNCHANGED <<frame_num, invalid, playing, actionFrame, pc, keysLeft,
                   curOb, trigLeft, log>>

add_trigger_end(o, layer) ==
    Register(o, NewTrigger("End", layer, 0, frame_num))

add_trigger_gte(o, layer, frame) ==
    Register(o, NewTrigger("GTE", layer, frame, frame_num))

add_trigger_lt(o, layer, frame) ==
    Register(o, NewTrigger("LT", layer, frame, frame_num))

\* ------------------------------------------------------ run_triggers
\* An entry of the log: what one step of run_triggers met and did.
\*   ev        "call", "discard" or "eval"
\*   heap      number of triggers constructed before the step
\*   seen      the trigger's current_frame before the step
\*   frame     the global frame number
\*   isPlaying, af   the animation state of ob on the trigger's layer
\*   valid     ob was valid when the step started
\*   queried   evaluate() asked ob for its animation state
\*   fired     evaluate() called the callback and returned True
\*   cb        what the callback did
LogEntry(ev, o, t, nxt, fires, cb) ==
    LET tr == IF t = 0 THEN Freed ELSE trigObj[t]
    IN  [ev |-> ev, ob |-> o, trigger |-> t, kind |-> tr.kind,
         threshold |-> tr.frame, heap |-> Len(trigObj),
         seen |-> tr.current_frame, frame |-> frame_num,
         isPlaying |-> IF o = NoOb THEN FALSE ELSE playing[o][tr.layer],
         af |-> IF o = NoOb THEN 0 ELSE actionFrame[o][tr.layer],
         valid |-> IF o = NoOb THEN FALSE ELSE ~invalid[o],
         queried |-> nxt, fired |-> fires, cb |-> cb]

NoCallback == [op |-> "pass", ob |-> NoOb]

\* for ob in list(self.triggers.keys()):
run_triggers_call ==
    /\ pc = "idle"
    /\ pc' = "keys"
    /\ keysLeft' = DOMAIN triggers
    /\ log' = <<LogEntry("call", NoOb, 0, FALSE, FALSE, NoCallback)>>
    /\ UNCHANGED <<frame_num, invalid, playing, actionFrame, triggers,
                   trigObj, calls, curOb, trigLeft>>

\* A copy that holds the first element only.
list_copy_first(s) == SubSeq(s, 1, 1)

\* list(obTriggers): the copy that the inner loop iterates over
list_copy(s) == s

\* One iteration of the outer loop up to the start of the inner loop.  The
\* order of a dict's keys is not fixed.
run_triggers_object(o) ==
    /\ pc = "keys"
    /\ o \in keysLeft
    /\ keysLeft' = keysLeft \ {o}
    /\ IF invalid[o]
       THEN /\ triggers' = dict_del(triggers, o)
            /\ trigObj' = Collect(trigObj, triggers')
            /\ log' = Append(log, LogEntry("discard", o, 0, FALSE, FALSE,
                                           NoCallback))
            /\ UNCHANGED <<pc, curOb, trigLeft>>
       ELSE /\ curOb' = o
            /\ trigLeft' = list_copy(triggers[o])
            /\ pc' = IF triggers[o] = <<>> THEN "keys" ELSE "triggers"
            /\ UNCHANGED <<triggers, trigObj, log>>
    /\ UNCHANGED <<frame_num, invalid, playing, actionFrame, calls>>

\* What callback cb needs to run: something to call it, room for the
\* trigger it constructs, a live object to act on.
CallbackCan(cb, fires) ==
    CASE cb.op = "pass" -> TRUE
      [] cb.op = "add_trigger_end" -> fires /\ CanConstruct /\ ~invalid[cb.ob]
      [] cb.op = "endObject" -> fires /\ ~invalid[cb.ob]

\* One iteration of the inner loop: trigger.evaluate(ob), the callback it
\* calls, and obTriggers.remove(trigger).
run_triggers_evaluate(cb) ==
    /\ pc = "triggers"
    /\ trigLeft # <<>>
    /\ LET t == Head(trigLeft)
           o == curOb
           tr == trigObj[t]
           nxt == is_next_frame(tr.current_frame, frame_num)
           fires == nxt /\ Condition(tr, o)
           adds == fires /\ cb.op = "add_trigger_end"
           ends == fires /\ cb.op = "endObject"
           heap1 == IF nxt THEN [trigObj EXCEPT ![t].current_frame = frame_num]
                    ELSE trigObj
           heap2 == IF adds
                    THEN Append(heap1, NewTrigger("End", 0, 0, frame_num))
                    ELSE heap1
           trg1 == IF adds THEN add_trigger(triggers, cb.ob, Len(heap2))
                   ELSE triggers
           trg2 == IF fires THEN [trg1 EXCEPT ![o] = list_remove(@, t)]
                   ELSE trg1
       IN  /\ CallbackCan(cb, fires)
           /\ trigObj' = Collect(heap2, trg2)
           /\ triggers' = trg2
           /\ calls' = LET c1 == IF fires THEN [calls EXCEPT ![t] = @ + 1]
                                  ELSE calls
                       IN  IF adds THEN Append(c1, 0) ELSE c1
           /\ invalid' = IF ends THEN [invalid EXCEPT ![cb.ob] = TRUE]
                         ELSE invalid
           /\ log' = Append(log, LogEntry("eval", o, t, nxt, fires, cb))
           /\ trigLeft' = Tail(trigLeft)
           /\ pc' = IF Tail(trigLeft) = <<>> THEN "keys" ELSE "triggers"
    /\ UNCHANGED <<frame_num, playing, actionFrame, keysLeft, curOb>>

\* The outer loop is exhausted: run_triggers returns.
run_triggers_return ==
    /\ pc = "keys"
    /\ keysLeft = {}
    /\ pc' = "idle"
    /\ log' = <<>>
    /\ UNCHANGED <<frame_num, invalid, playing, actionFrame, triggers,
                   trigObj, calls, keysLeft, curOb, trigLeft>>

\* ------------------------------------------------------ environment
\* The host advances the frame clock between logic ticks.
Tick ==
    /\ pc = "idle"
    /\ frame_num < MaxFrameNum
    /\ frame_num' = frame_num + 1
    /\ UNCHANGED <<invalid, playing, actionFrame, triggers, trigObj, calls,
                   pc, keysLeft, curOb, trigLeft, log>>

\* The host starts or finishes the action on a layer.
SetPlaying(o, l, b) ==
    /\ pc = "idle"
    /\ ~invalid[o]
    /\ playing[o][l] # b
    /\ playing' = [playing EXCEPT ![o][l] = b]
    /\ UNCHANGED <<frame_num, invalid, actionFrame, triggers, trigObj, calls,
                   pc, keysLeft, curOb, trigLeft, log>>

\* The host moves the playback frame of a layer (forwards or backwards).
SetActionFrame(o, l, f) ==
    /\ pc = "idle"
    /\ ~invalid[o]
    /\ actionFrame[o][l] # f
    /\ actionFrame' = [actionFrame EXCEPT ![o][l] = f]
    /\ UNCHANGED <<frame_num, invalid, playing, triggers, trigObj, calls,
                   pc, keysLeft, curOb, trigLeft, log>>

\* The host destroys a game object.
EndObject(o) ==
    /\ pc = "idle"
    /\ ~invalid[o]
    /\ invalid' = [invalid EXCEPT ![o] = TRUE]
    /\ UNCHANGED <<frame_num, playing, actionFrame, triggers, trigObj, calls,
                   pc, keysLeft, curOb, trigLeft, log>>

\* ------------------------------------------------------------ sound
\* The objects that move; the others are scenery.
Movable == {"o1"}

\* The world positions an object takes.
WorldPositions == {<<0, 0, 0>>, <<1, 0, 0>>}

\* handle.location of a handle whose location was never set.
NoLocation == <<>>

\* An aud handle: the sample it plays, whether handle.status is truthy (it
\* is playing or paused), how often handle.stop() was called on it, the
\* object whose Handle3D record was made for it (NoOb if none was), and
\* handle.location.
NewAudHandle(filename, anchor) ==
    [sample |-> filename, status |-> TRUE, stops |-> 0, anchor |-> anchor,
     location |-> IF anchor = NoOb THEN NoLocation ELSE worldPosition[anchor]]

\* What an update() call did: the objects whose worldPosition it read and
\* whether it left by an exception.
Updated(reads, raised) == [reads |-> reads, raised |-> raised]

NoUpdate == Updated({}, FALSE)

\* A call into the sound module: the function and what came of it
\* ("started", "dropped" or "failed" for play_sample, "stopped" or "noop" for
\* stop, "done" for update).
Called(op, did) == [op |-> op, did |-> did]

\* An aud handle that no list refers to any more.
FreedHandle ==
    [sample |-> "", status |-> FALSE, stops |-> 0, anchor |-> NoOb,
     location |-> NoLocation]

HandleListed(hs, h) == \E i \in 1..Len(hs) : hs[i].handle = h

\* The handles hp once those that neither list holds are released.
CollectHandles(hp, hs, l3d) ==
    [h \in DOMAIN hp |->
        IF HandleListed(hs, h) \/ HandleListed(l3d, h) THEN hp[h]
        ELSE FreedHandle]

HandleBXT(ident, handle, source) ==
    [ident |-> ident, handle |-> handle, source |-> source]

Handle3D(ob, handle, source) == [ob |-> ob, handle |-> handle, source |-> source]

\* for h in _handles: if h.ident == filename: the index of the first match,
\* 0 if there is none.
RECURSIVE find_ident(_, _, _)
find_ident(hs, ident, i) ==
    IF i > Len(hs) THEN 0
    ELSE IF hs[i].ident = ident THEN i
    ELSE find_ident(hs, ident, i + 1)

\* play_sample without its check for a tracked handle.
already_playing_never(hs, filename) == FALSE

\* play_sample: a handle with this ident is tracked
already_playing(hs, filename) == find_ident(hs, filename, 1) # 0

\* An except clause that prints the diagnostic every time.
warn_always(filename) ==
    /\ printed' = [printed EXCEPT ![filename] = @ + 1]
    /\ warnings_printed' = warnings_printed \cup {filename}

\* except aud.error: print once per filename, remember the filename.
warn(filename) ==
    /\ printed' = IF filename \in warnings_printed THEN printed
                  ELSE [printed EXCEPT ![filename] = @ + 1]
    /\ warnings_printed' = warnings_printed \cup {filename}

\* play_sample(filename, ob=ob); ob is NoOb for ob=None. The failure "locate"
\* is handle.location = ob.worldPosition raising aud.error.
play_sample(filename, ob, fail) ==
    /\ pc = "idle"
    /\ ob # NoOb => ~invalid[ob]
    /\ fail = "locate" => ob # NoOb
    /\ IF already_playing(handles, filename)
       THEN /\ lastOp' = Called("play_sample", "dropped")
            /\ UNCHANGED <<handles, localisable_handles, audHandle,
                           warnings_printed, printed>>
       ELSE IF fail = "open"
       THEN /\ warn(filename)
            /\ lastOp' = Called("play_sample", "failed")
            /\ UNCHANGED <<handles, localisable_handles, audHandle>>
       ELSE /\ Len(audHandle) < MaxHandles
            /\ lastOp' = Called("play_sample", "started")
            /\ audHandle' = Append(audHandle, NewAudHandle(filename,
                    IF fail = "none" THEN ob ELSE NoOb))
            /\ handles' = Append(handles,
                    HandleBXT(filename, Len(audHandle) + 1, filename))
            /\ IF ob = NoOb
               THEN UNCHANGED <<localisable_handles, warnings_printed, printed>>
               ELSE IF fail = "locate"
               THEN warn(filename) /\ UNCHANGED localisable_handles
               ELSE /\ localisable_handles' = Append(localisable_handles,
                            Handle3D(ob, Len(audHandle) + 1, filename))
                    /\ UNCHANGED <<warnings_printed, printed>>
    /\ updLast' = NoUpdate
    /\ UNCHANGED <<worldPosition, devLocked, animVars, called, constructed, restVars>>

\* handle.stop() that leaves the playback running.
aud_stop_nothing(hp, h) == hp

\* handle.stop()
aud_stop(hp, h) == [hp EXCEPT ![h].status = FALSE, ![h].stops = @ + 1]

\* stop(identifier)
stop(identifier) ==
    /\ pc = "idle"
    /\ LET i == find_ident(handles, identifier, 1)
       IN  IF i = 0
           THEN /\ lastOp' = Called("stop", "noop")
                /\ UNCHANGED <<handles, audHandle>>
           ELSE /\ lastOp' = Called("stop", "stopped")
                /\ handles' = list_remove(handles, handles[i])
                /\ audHandle' = CollectHandles(
                        aud_stop(audHandle, handles[i].handle),
                        handles', localisable_handles)
    /\ updLast' = NoUpdate
    /\ UNCHANGED <<localisable_handles, warnings_printed, printed,
                   worldPosition, devLocked, animVars, called, constructed, restVars>>

\* A first loop that drops every HandleBXT.
handle_stopped_always(status) == TRUE

\* update._update, first loop: the test that drops a HandleBXT
handle_stopped(status) == ~status

\* The second loop's test without the check of the owner.
handle3d_dead_status_only(obInvalid, status) == ~status

\* update._update, second loop: the test that drops a Handle3D
handle3d_dead(obInvalid, status) == obInvalid \/ ~status

\* for h in list(_handles): ... _handles.remove(h)
RECURSIVE update_handles(_, _)
update_handles(snapshot, live) ==
    IF snapshot = <<>> THEN live
    ELSE LET h == Head(snapshot)
         IN  update_handles(Tail(snapshot),
                 IF handle_stopped(audHandle[h.handle].status)
                 THEN list_remove(live, h) ELSE live)

\* for h3d in list(_localisable_handles): ... _localisable_handles.remove(h3d)
RECURSIVE update_localisable(_, _)
update_localisable(snapshot, live) ==
    IF snapshot = <<>> THEN live
    ELSE LET h3d == Head(snapshot)
         IN  update_localisable(Tail(snapshot),
                 IF handle3d_dead(invalid[h3d.ob], audHandle[h3d.handle].status)
                 THEN list_remove(live, h3d) ELSE live)

\* h3d.handle.location = position
set_location(hp, h, position) == [hp EXCEPT ![h].location = position]

\* for h3d in list(_localisable_handles): the handles once the location of
\* each record that is kept has been set.
RECURSIVE update_locations(_, _)
update_locations(snapshot, hp) ==
    IF snapshot = <<>> THEN hp
    ELSE LET h3d == Head(snapshot)
         IN  update_locations(Tail(snapshot),
                 IF handle3d_dead(invalid[h3d.ob], audHandle[h3d.handle].status)
                 THEN hp
                 ELSE set_location(hp, h3d.handle, worldPosition[h3d.ob]))

\* for h3d in list(_localisable_handles): the objects whose worldPosition
\* the loop reads.
update_reads(snapshot) ==
    {snapshot[i].ob : i \in {j \in 1..Len(snapshot) :
        ~handle3d_dead(invalid[snapshot[j].ob],
                       audHandle[snapshot[j].handle].status)}}

\* dev.lock()
dev_lock(depth) == depth + 1

\* dev.unlock() placed after _update() instead of in a finally clause.
unlock_on_return(depth, raised) == IF raised THEN depth ELSE depth - 1

\* try: _update() finally: dev.unlock()
unlock_finally(depth, raised) == depth - 1

\* update(), _update() returning
update ==
    /\ pc = "idle"
    /\ handles' = update_handles(handles, handles)
    /\ localisable_handles' =
            update_localisable(localisable_handles, localisable_handles)
    /\ audHandle' = CollectHandles(
            update_locations(localisable_handles, audHandle),
            handles', localisable_handles')
    /\ lastOp' = Called("update", "done")
    /\ updLast' = Updated(update_reads(localisable_handles), FALSE)
    /\ devLocked' = unlock_finally(dev_lock(devLocked), FALSE)
    /\ UNCHANGED <<warnings_printed, printed, worldPosition, animVars, called, constructed,
                   restVars>>

\* update(), the assignment to handle.location of the k-th Handle3D record
\* raising aud.error: the records before it have been dealt with, the
\* exception leaves update() through the finally clause.
update_raises(k) ==
    /\ pc = "idle"
    /\ k \in 1..Len(localisable_handles)
    /\ ~handle3d_dead(invalid[localisable_handles[k].ob],
                      audHandle[localisable_handles[k].handle].status)
    /\ handles' = update_handles(handles, handles)
    /\ localisable_handles' =
            update_localisable(SubSeq(localisable_handles, 1, k - 1),
                               localisable_handles)
    /\ audHandle' = CollectHandles(
            update_locations(SubSeq(localisable_handles, 1, k - 1), audHandle),
            handles', localisable_handles')
    /\ lastOp' = Called("update", "raised")
    /\ updLast' = Updated(update_reads(SubSeq(localisable_handles, 1, k)), TRUE)
    /\ devLocked' = unlock_finally(dev_lock(devLocked), TRUE)
    /\ UNCHANGED <<warnings_printed, printed, worldPosition, animVars, called, constructed,
                   restVars>>

\* The host engine moves a live object.
MoveObject(o, position) ==
    /\ pc = "idle"
    /\ ~invalid[o]
    /\ worldPosition[o] # position
    /\ worldPosition' = [worldPosition EXCEPT ![o] = position]
    /\ UNCHANGED <<handles, localisable_handles, audHandle, warnings_printed,
                   printed, lastOp, devLocked, updLast, animVars, called, constructed,
                   restVars>>

\* The audio device: a playback reaches its end.
PlaybackEnds(h) ==
    /\ pc = "idle"
    /\ audHandle[h].status
    /\ audHandle' = [audHandle EXCEPT ![h].status = FALSE]
    /\ UNCHANGED <<handles, localisable_handles, warnings_printed, printed,
                   lastOp, worldPosition, devLocked, updLast, animVars, called, constructed,
                   restVars>>

\* ------------------------------------------------------ effectors.py
\* Python floats are modelled as exact fractions <<numerator, denominator>>
\* in lowest terms with a positive denominator; rounding, overflow and
\* underflow of floating point are not modelled.  The field is placed at the
\* world origin, unrotated and unscaled, so that local and world coordinates
\* coincide.  DEBUG is False.
FieldKinds == {"Linear", "Repeller3D", "Repeller2D", "Vortex2D"}
Dist1s == {1, 2, 5}
Dist2s == {2, 4, 8}
Magnitudes == {-2, 3}
Factors == {1, 2}
\* Arguments of direct get_magnitude calls.
Distances == 0..12
\* Actor positions; every direction vector they give has an integer length.
Positions == {<<0, 0, 0>>, <<1, 0, 0>>, <<2, 0, 0>>, <<0, 4, 0>>,
              <<3, 4, 0>>, <<0, 0, 2>>, <<0, -3, -4>>, <<0, 9, 0>>}
Velocities == {<<0, 0, 0>>, <<1, 0, -1>>}

Abs(x) == IF x < 0 THEN 0 - x ELSE x

RECURSIVE GCD(_, _)
GCD(a, b) == IF b = 0 THEN a ELSE GCD(b, a % b)

\* The fraction n/d, d > 0.
Frac(n, d) == LET g == GCD(Abs(n), d) IN <<n \div g, d \div g>>

FracOf(i) == <<i, 1>>

FracLT(a, b) == a[1] * b[2] < b[1] * a[2]

FracAdd(a, b) == Frac(a[1] * b[2] + b[1] * a[2], a[2] * b[2])

FracSub(a, b) == Frac(a[1] * b[2] - b[1] * a[2], a[2] * b[2])

FracMul(a, b) == Frac(a[1] * b[1], a[2] * b[2])

\* mathutils.Vector of an integer triple
Vector(p) == <<FracOf(p[1]), FracOf(p[2]), FracOf(p[3])>>

\* vec.magnitude, for the vectors of integer length
magnitude(p) ==
    LET sq == p[1] * p[1] + p[2] * p[2] + p[3] * p[3]
    IN  CHOOSE r \in 0..sq : r * r = sq

\* bxt.math.manhattan_dist(pos, self.worldPosition), the field at the origin
manhattan_dist(p) == Abs(p[1]) + Abs(p[2]) + Abs(p[3])

\* ForceField.modulate
ForceField_modulate(distance, limit) == Frac(distance * distance, limit * limit)

\* A Linear.modulate that does not override ForceField.modulate.
Linear_modulate_inherited(distance, limit) ==
    Frac(distance * distance, limit * limit)

\* Linear.modulate
Linear_modulate(distance, limit) == Frac(distance, limit)

\* self.modulate: the method of the object's class
modulate(kind, distance, limit) ==
    IF kind = "Linear"
    THEN Linear_modulate(distance, limit)
    ELSE ForceField_modulate(distance, limit)

\* A get_magnitude that returns the effect as computed.
clamp_nothing(effect) == effect

\* if effect > 1.0: effect = 1.0; if effect < 0.0: effect = 0.0
clamp(effect) ==
    LET e1 == IF FracLT(FracOf(1), effect) THEN FracOf(1) ELSE effect
    IN  IF FracLT(e1, FracOf(0)) THEN FracOf(0) ELSE e1

\* ForceField.get_magnitude
get_magnitude(f, distance) ==
    LET effect ==
            IF distance < f.FFDist1
            THEN modulate(f.kind, distance, f.FFDist1)
            ELSE FracSub(FracOf(1),
                         modulate(f.kind, distance - f.FFDist1, f.FFDist2))
    IN  FracMul(FracOf(f.FFMagnitude), clamp(effect))

\* get_force_direction of the four classes, in local space
get_force_direction(kind, pos) ==
    CASE kind = "Linear" -> <<0, 1, 0>>
      [] kind = "Repeller3D" -> pos
      [] kind = "Repeller2D" -> <<pos[1], pos[2], 0>>
      [] kind = "Vortex2D" -> <<pos[2], 0 - pos[1], 0>>

\* No force field has been constructed.
NoField == [kind |-> "none", FFDist1 |-> 1, FFDist2 |-> 1, FFMagnitude |-> 0,
            FFZCut |-> FALSE]

\* What a call into the force field did: for get_magnitude the argument and
\* the value returned; for touchedSingle how it ended ("far", "zcut" or
\* "applied"), the distance handed to get_magnitude and the actor's velocity
\* before the call.
FieldCall(op, did, distance, result, before) ==
    [op |-> op, did |-> did, distance |-> distance, result |-> result,
     before |-> before]

NoFieldCall == FieldCall("none", "none", 0, FracOf(0), Vector(<<0, 0, 0>>))

\* The scene places its force field, of some class and with its game
\* properties; the field persists for the lifetime of the scene.
ForceField_init(kind, dist1, dist2, mag, zcut) ==
    /\ ff = NoField
    /\ ff' = [kind |-> kind, FFDist1 |-> dist1, FFDist2 |-> dist2,
              FFMagnitude |-> mag, FFZCut |-> zcut]
    /\ ffLast' = NoFieldCall
    /\ touched' = FALSE
    /\ UNCHANGED <<actorPos, linV>>

\* The physics engine moves the actor between two logic ticks.
PlaceActor(pos, vel) ==
    /\ actorPos' = pos
    /\ linV' = Vector(vel)
    /\ touched' = FALSE
    /\ ffLast' = NoFieldCall
    /\ UNCHANGED ff

\* A direct call of get_magnitude(distance).
get_magnitude_call(distance) ==
    /\ ff.kind # "none"
    /\ ffLast' = FieldCall("get_magnitude", "returned", distance,
                           get_magnitude(ff, distance), linV)
    /\ UNCHANGED <<ff, actorPos, linV, touched>>

\* A touchedSingle without the test of FFZCut.
z_cut_ignored(f, pos) == FALSE

\* 'FFZCut' in self and self['FFZCut'] and (pos.z > 0.0), pos being the
\* actor's position in the field's frame; the field sits at the origin with
\* the axes of the world.
z_cut(f, pos) == f.FFZCut /\ pos[3] > 0

\* ForceField.touchedSingle(actor, factor)
touchedSingle(factor) ==
    /\ ff.kind # "none"
    /\ ~touched
    /\ touched' = TRUE
    /\ IF manhattan_dist(actorPos) > ff.FFDist2
       THEN /\ ffLast' = FieldCall("touchedSingle", "far", 0, FracOf(0), linV)
            /\ UNCHANGED linV
       ELSE IF z_cut(ff, actorPos)
       THEN /\ ffLast' = FieldCall("touchedSingle", "zcut", 0, FracOf(0), linV)
            /\ UNCHANGED linV
       ELSE LET vec == get_force_direction(ff.kind, actorPos)
                dist == magnitude(vec)
                unit == IF dist # 0
                        THEN <<Frac(vec[1], dist), Frac(vec[2], dist),
                               Frac(vec[3], dist)>>
                        ELSE Vector(vec)
                mag == get_magnitude(ff, dist)
                scale == FracMul(mag, FracOf(factor))
            IN  /\ linV' = <<FracAdd(linV[1], FracMul(unit[1], scale)),
                             FracAdd(linV[2], FracMul(unit[2], scale)),
                             FracAdd(linV[3], FracMul(unit[3], scale))>>
                /\ ffLast' = FieldCall("touchedSingle", "applied", dist, mag,
                                       linV)
    /\ UNCHANGED <<ff, actorPos>>

\* ----------------------------------------- utils.py: WeakPriorityQueue
\* A weak reference is modelled by the item it refers to: references to a
\* live item compare equal and hash alike.  An item is alive while the
\* application holds it; when a queued item is collected its reference's
\* callback runs.
Items == {"i1", "i2", "i3"}
Priorities == {0, 1, 2}
NoItem == "none"

\* list.insert(i, x), i counted from 0
list_insert(s, i, x) == SubSeq(s, 1, i) \o <<x>> \o SubSeq(s, i + 1, Len(s))

\* A loop test that also passes over the items of equal priority.
push_stops_strict(priOther, priority) == priOther < priority

\* if priOther <= priority: break
push_stops(priOther, priority) == priOther <= priority

\* The while loop of push: the index at which the reference is inserted.
RECURSIVE push_index(_, _, _, _)
push_index(q, pri, priority, i) ==
    IF i > 0
    THEN IF push_stops(pri[q[i]], priority)
         THEN i
         ELSE push_index(q, pri, priority, i - 1)
    ELSE i

\* A membership test that finds nothing.
ref_in_priorities_never(pri, item) == FALSE

\* ref in self.priorities
ref_in_priorities(pri, item) == item \in DOMAIN pri

\* A list.pop() that takes the first element.
list_pop_first(s) == [ref |-> s[1], rest |-> SubSeq(s, 2, Len(s))]

\* list.pop() of a list that is not empty
list_pop(s) == [ref |-> s[Len(s)], rest |-> SubSeq(s, 1, Len(s) - 1)]

\* What a call into the queue did: its argument, whether the argument was
\* in the queue, the index returned (push), the item returned (pop, top) and
\* the exception raised, if any.
QueueCall(op, item, had, index, ret, raised) ==
    [op |-> op, item |-> item, had |-> had, index |-> index, ret |-> ret,
     raised |-> raised]

NoIndex == 0 - 1

\* WeakPriorityQueue.push(item, priority)
push(item, priority) ==
    LET found == ref_in_priorities(priorities, item)
        q1 == IF found THEN list_remove(queue, item) ELSE queue
        p1 == IF found THEN dict_del(priorities, item) ELSE priorities
        i == push_index(q1, p1, priority, Len(q1))
    IN  /\ queue' = list_insert(q1, i, item)
        /\ priorities' = [r \in DOMAIN p1 \cup {item} |->
                            IF r = item THEN priority ELSE p1[r]]
        /\ pushOrder' = Append(list_remove(pushOrder, item), item)
        /\ wpqLast' = QueueCall("push", item, InList(queue, item), i,
                                NoItem, "none")

\* WeakPriorityQueue.discard(item): list.remove raises ValueError when the
\* reference is not in the list.
discard(item) ==
    IF InList(queue, item)
    THEN /\ queue' = list_remove(queue, item)
         /\ priorities' = dict_del(priorities, item)
         /\ pushOrder' = list_remove(pushOrder, item)
         /\ wpqLast' = QueueCall("discard", item, TRUE, NoIndex, NoItem,
                                "none")
    ELSE /\ wpqLast' = QueueCall("discard", item, FALSE, NoIndex, NoItem,
                                "ValueError")
         /\ UNCHANGED <<queue, priorities, pushOrder>>

\* autoremove: a queued item is collected and its reference's callback
\* calls _discard.
autoremove(item) ==
    /\ InList(queue, item)
    /\ queue' = list_remove(queue, item)
    /\ priorities' = dict_del(priorities, item)
    /\ pushOrder' = list_remove(pushOrder, item)
    /\ wpqLast' = QueueCall("autoremove", item, TRUE, NoIndex, NoItem,
                            "none")

\* WeakPriorityQueue.pop(): list.pop raises IndexError on an empty list.
pop ==
    IF queue = <<>>
    THEN /\ wpqLast' = QueueCall("pop", NoItem, FALSE, NoIndex, NoItem,
                                "IndexError")
         /\ UNCHANGED <<queue, priorities, pushOrder>>
    ELSE LET popped == list_pop(queue)
         IN  /\ queue' = popped.rest
             /\ priorities' = dict_del(priorities, popped.ref)
             /\ pushOrder' = list_remove(pushOrder, popped.ref)
             /\ wpqLast' = QueueCall("pop", NoItem, FALSE, NoIndex,
                                     popped.ref, "none")

\* WeakPriorityQueue.top(): self[-1], IndexError on an empty queue.
top ==
    /\ wpqLast' = IF queue = <<>>
                  THEN QueueCall("top", NoItem, FALSE, NoIndex, NoItem,
                                 "IndexError")
                  ELSE QueueCall("top", NoItem, FALSE, NoIndex,
                                 queue[Len(queue)], "none")
    /\ UNCHANGED <<queue, priorities, pushOrder>>

\* ------------------------------------------------ utils.py: EventBus
\* A notify call is modelled step by step, one listener at a time; what a
\* listener's onEvent does (nothing, or a notify of its own) is chosen when
\* the event is delivered to it.  Listeners return normally and do not add
\* or remove listeners while a notify is in progress.
\* Depth to which notify calls are nested inside onEvent.
MaxNesting == 1
Listeners == {"l1", "l2"}
Messages == {"m1", "m2"}
Bodies == {1, 2}

\* Event(message, body)
Event(message, body) == [message |-> message, body |-> body]

Events == {Event(m, b) : m \in Messages, b \in Bodies}

NoEvent == [message |-> "none", body |-> 0]

\* What onEvent of a listener may do with the bus.
OnEvents == {NoEvent} \cup Events

\* EventBus.addListener(listener)
addListener(l) ==
    /\ busStack = <<>>
    /\ listeners' = listeners \cup {l}
    /\ UNCHANGED <<eventCache, busStack, lastSent, busLast>>

\* EventBus.remListener(listener) of a listener that was added
remListener(l) ==
    /\ busStack = <<>>
    /\ l \in listeners
    /\ listeners' = listeners \ {l}
    /\ UNCHANGED <<eventCache, busStack, lastSent, busLast>>

\* self.eventCache[event.message] = event
notify_store(cache, event) ==
    [m \in DOMAIN cache \cup {event.message} |->
        IF m = event.message THEN event ELSE cache[m]]

\* The start of a notify call: for listener in self.listeners
notify_begin(event) ==
    /\ busStack' = Append(busStack, [event |-> event, left |-> listeners])
    /\ lastSent' = [lastSent EXCEPT ![event.message] = event]
    /\ UNCHANGED <<listeners, eventCache, busLast>>

\* EventBus.notify(event) called by the application
notify(event) ==
    /\ busStack = <<>>
    /\ notify_begin(event)

\* listener.onEvent(event) for the next listener of the innermost notify;
\* onEvent either does nothing with the bus or calls notify(does).
notify_deliver(l, does) ==
    /\ busStack # <<>>
    /\ l \in busStack[Len(busStack)].left
    /\ LET rest == [busStack EXCEPT ![Len(busStack)].left = @ \ {l}]
       IN  IF does = NoEvent
           THEN /\ busStack' = rest
                /\ UNCHANGED <<listeners, eventCache, lastSent, busLast>>
           ELSE /\ Len(busStack) <= MaxNesting
                /\ busStack' = Append(rest, [event |-> does,
                                             left |-> listeners])
                /\ lastSent' = [lastSent EXCEPT ![does.message] = does]
                /\ UNCHANGED <<listeners, eventCache, busLast>>

\* The end of the innermost notify call: the event is cached.
notify_return ==
    /\ busStack # <<>>
    /\ busStack[Len(busStack)].left = {}
    /\ eventCache' = notify_store(eventCache, busStack[Len(busStack)].event)
    /\ busStack' = SubSeq(busStack, 1, Len(busStack) - 1)
    /\ UNCHANGED <<listeners, lastSent, busLast>>

\* What a replayLast call did: the number of onEvent calls it made on the
\* target and the event it passed.
Replayed(message, n, event) ==
    [op |-> "replayLast", message |-> message, onEvents |-> n,
     event |-> event]

\* EventBus.replayLast(target, message), no notify being in progress
replayLast(message) ==
    /\ busStack = <<>>
    /\ busLast' = IF message \in DOMAIN eventCache
                  THEN Replayed(message, 1, eventCache[message])
                  ELSE Replayed(message, 0, NoEvent)
    /\ UNCHANGED <<listeners, eventCache, busStack, lastSent>>

\* --------------------------------------------- utils.py: FuzzySwitch
\* Length of a run of calls of one kind that is followed.
MaxRun == 4
Delays == 0..3

NoSwitch == [delayOn |-> 0, delayOff |-> 0, on |-> FALSE, current |-> 0,
             built |-> FALSE]

SwitchCall(op, was) == [op |-> op, was |-> was]

\* FuzzySwitch.__init__(delayOn, delayOff, startOn)
FuzzySwitch_init(delayOn, delayOff, startOn) ==
    /\ sw' = [delayOn |-> delayOn, delayOff |-> 0 - delayOff, on |-> startOn,
              current |-> IF startOn THEN delayOn ELSE 0 - delayOff,
              built |-> TRUE]
    /\ onRun' = 0
    /\ offRun' = 0
    /\ swLast' = SwitchCall("init", startOn)

\* A turn_on that keeps counting from where turn_off left.
turn_on_floor_nothing(current) == current

\* max(0, self.current)
turn_on_floor(current) == IF current < 0 THEN 0 ELSE current

\* min(0, self.current)
turn_off_ceiling(current) == IF current > 0 THEN 0 ELSE current

\* FuzzySwitch.turn_on()
turn_on ==
    /\ sw.built
    /\ onRun < MaxRun
    /\ LET cur == turn_on_floor(sw.current)
       IN  sw' = IF sw.on
                 THEN [sw EXCEPT !.current = cur]
                 ELSE [sw EXCEPT !.current = cur + 1,
                                 !.on = (cur + 1 = sw.delayOn)]
    /\ onRun' = onRun + 1
    /\ offRun' = 0
    /\ swLast' = SwitchCall("turn_on", sw.on)

\* FuzzySwitch.turn_off()
turn_off ==
    /\ sw.built
    /\ offRun < MaxRun
    /\ LET cur == turn_off_ceiling(sw.current)
       IN  sw' = IF ~sw.on
                 THEN [sw EXCEPT !.current = cur]
                 ELSE [sw EXCEPT !.current = cur - 1,
                                 !.on = ~(cur - 1 = sw.delayOff)]
    /\ onRun' = 0
    /\ offRun' = offRun + 1
    /\ swLast' = SwitchCall("turn_off", sw.on)

\* ---------------------------------------------------- specification
Init ==
    /\ frame_num = 0
    /\ invalid = [o \in Obs |-> FALSE]
    /\ playing = [o \in Obs |-> [l \in Layers |-> FALSE]]
    /\ actionFrame = [o \in Obs |-> [l \in Layers |-> 0]]
    /\ triggers = [o \in {} |-> <<>>]
    /\ trigObj = <<>>
    /\ calls = <<>>
    /\ pc = "idle"
    /\ keysLeft = {}
    /\ curOb = NoOb
    /\ trigLeft = <<>>
    /\ log = <<>>
    /\ called = FALSE
    /\ constructed = <<>>
    /\ handles = <<>>
    /\ localisable_handles = <<>>
    /\ audHandle = <<>>
    /\ warnings_printed = {}
    /\ printed = [f \in Filenames |-> 0]
    /\ lastOp = Called("none", "none")
    /\ worldPosition = [o \in Obs |-> <<0, 0, 0>>]
    /\ devLocked = 0
    /\ updLast = NoUpdate
    /\ ff = NoField
    /\ actorPos = <<0, 0, 0>>
    /\ linV = Vector(<<0, 0, 0>>)
    /\ touched = FALSE
    /\ ffLast = NoFieldCall
    /\ queue = <<>>
    /\ priorities = [r \in {} |-> 0]
    /\ pushOrder = <<>>
    /\ wpqLast = QueueCall("none", NoItem, FALSE, NoIndex, NoItem, "none")
    /\ listeners = {}
    /\ eventCache = [m \in {} |-> NoEvent]
    /\ busStack = <<>>
    /\ lastSent = [m \in Messages |-> NoEvent]
    /\ busLast = [op |-> "none", message |-> "none", onEvents |-> 0,
                  event |-> NoEvent]
    /\ sw = NoSwitch
    /\ onRun = 0
    /\ offRun = 0
    /\ swLast = SwitchCall("none", FALSE)

\* The application registering triggers (outside callbacks).
AppStep ==
    \/ \E o \in Obs, l \in Layers : add_trigger_end(o, l)
    \/ \E o \in Obs, l \in Layers, f \in TrigFrames : add_trigger_gte(o, l, f)
    \/ \E o \in Obs, l \in Layers, f \in TrigFrames : add_trigger_lt(o, l, f)

\* The steps of a run_triggers call after its start.
SweepStep ==
    \/ \E o \in Obs : run_triggers_object(o)
    \/ \E cb \in Callbacks : run_triggers_evaluate(cb)
    \/ run_triggers_return

\* The host engine, the frame clock apart.
HostStep ==
    \/ \E o \in Animated, l \in Layers, b \in BOOLEAN : SetPlaying(o, l, b)
    \/ \E o \in Animated, l \in Layers, f \in ActionFrames : SetActionFrame(o, l, f)
    \/ \E o \in Obs : EndObject(o)

\* run_triggers is called at any time, any number of times per frame.
Next ==
    \/ AppStep /\ UNCHANGED <<called, constructed, soundVars, restVars>>
    \/ run_triggers_call /\ UNCHANGED <<called, constructed, soundVars, restVars>>
    \/ SweepStep /\ UNCHANGED <<called, constructed, soundVars, restVars>>
    \/ Tick /\ UNCHANGED <<called, constructed, soundVars, restVars>>
    \/ HostStep /\ UNCHANGED <<called, constructed, soundVars, restVars>>

Spec == Init /\ [][Next]_vars

\* The host calls run_triggers exactly once per logic tick, and the frame
\* clock advances from one tick to the next.
NextTicks ==
    \/ AppStep /\ UNCHANGED <<called, constructed, soundVars, restVars>>
    \/ run_triggers_call /\ ~called /\ called' = TRUE
        /\ UNCHANGED <<constructed, soundVars, restVars>>
    \/ SweepStep /\ UNCHANGED <<called, constructed, soundVars, restVars>>
    \/ Tick /\ called /\ called' = FALSE
        /\ UNCHANGED <<constructed, soundVars, restVars>>
    \/ HostStep /\ UNCHANGED <<called, constructed, soundVars, restVars>>

\* A run_triggers call that has started runs to its end.
SpecTicks ==
    /\ Init
    /\ [][NextTicks]_vars
    /\ WF_vars(SweepStep /\ UNCHANGED <<called, constructed, soundVars, restVars>>)

\* Trigger.__init__ seen from outside: the frame in which the trigger was
\* constructed, and whether a callback of a running run_triggers call
\* constructed it.
Constructs ==
    constructed' =
        IF Len(trigObj') > Len(trigObj)
        THEN Append(constructed, [frame |-> frame_num, sweep |-> pc # "idle"])
        ELSE constructed

\* The trigger registry with the construction of every trigger on record;
\* run_triggers is called at any time, any number of times per frame, the
\* host moves the animations to either side of the trigger frames, and
\* objects end only by a callback.
NextFrames ==
    \/ AppStep /\ Constructs /\ UNCHANGED <<called, soundVars, restVars>>
    \/ run_triggers_call /\ Constructs /\ UNCHANGED <<called, soundVars, restVars>>
    \/ SweepStep /\ Constructs /\ UNCHANGED <<called, soundVars, restVars>>
    \/ Tick /\ Constructs /\ UNCHANGED <<called, soundVars, restVars>>
    \/ (\E o \in Animated, l \in Layers, b \in BOOLEAN : SetPlaying(o, l, b))
        /\ Constructs /\ UNCHANGED <<called, soundVars, restVars>>
    \/ (\E o \in Animated, l \in Layers, f \in {0} \cup TrigFrames :
            SetActionFrame(o, l, f))
        /\ Constructs /\ UNCHANGED <<called, soundVars, restVars>>

SpecFrames == Init /\ [][NextFrames]_vars

\* The sound module: the application plays and stops samples, update() runs
\* every logic tick, playbacks end and objects are destroyed.
NextSound ==
    \/ \E f \in Filenames, o \in Obs \cup {NoOb}, fail \in Failures :
            play_sample(f, o, fail)
    \/ \E f \in Filenames : stop(f)
    \/ update
    \/ \E h \in 1..MaxHandles : h <= Len(audHandle) /\ PlaybackEnds(h)
    \/ \E o \in Obs : EndObject(o) /\ UNCHANGED <<called, constructed, soundVars, restVars>>

SpecSound == Init /\ [][NextSound]_vars

\* The sound module with the scene in motion: every sample can be played,
\* objects move between the logic ticks, and the audio device may refuse a
\* position.
NextSound3D ==
    \/ \E f \in Filenames, o \in Obs \cup {NoOb} : play_sample(f, o, "none")
    \/ \E f \in Filenames : stop(f)
    \/ update
    \/ \E h \in 1..MaxHandles : h <= Len(audHandle) /\ PlaybackEnds(h)
    \/ \E o \in Obs : EndObject(o) /\ UNCHANGED <<called, constructed, soundVars, restVars>>
    \/ \E o \in Movable, p \in WorldPositions : MoveObject(o, p)
    \/ \E k \in 1..MaxHandles : update_raises(k)

SpecSound3D == Init /\ [][NextSound3D]_vars

\* The force fields: the scene places a field, physics moves the actor
\* between logic ticks, and the field's controller runs once per tick.
NextField ==
    \/ \E k \in FieldKinds, d1 \in Dist1s, d2 \in Dist2s, m \in Magnitudes,
          z \in BOOLEAN :
            ForceField_init(k, d1, d2, m, z)
            /\ UNCHANGED <<animVars, called, constructed, soundVars, wpqVars, busVars, swVars>>
    \/ \E p \in Positions, v \in Velocities :
            PlaceActor(p, v) /\ UNCHANGED <<animVars, called, constructed, soundVars, wpqVars, busVars, swVars>>
    \/ \E d \in Distances :
            get_magnitude_call(d) /\ UNCHANGED <<animVars, called, constructed, soundVars, wpqVars, busVars, swVars>>
    \/ \E f \in Factors :
            touchedSingle(f) /\ UNCHANGED <<animVars, called, constructed, soundVars, wpqVars, busVars, swVars>>

SpecField == Init /\ [][NextField]_vars

\* The priority queue: the application pushes, discards, pops and looks at
\* the top, and queued items are collected.
NextQueue ==
    \/ \E it \in Items, p \in Priorities :
            push(it, p)
            /\ UNCHANGED <<animVars, called, constructed, soundVars, fieldVars, busVars, swVars>>
    \/ \E it \in Items :
            discard(it) /\ UNCHANGED <<animVars, called, constructed, soundVars, fieldVars, busVars, swVars>>
    \/ \E it \in Items :
            autoremove(it)
            /\ UNCHANGED <<animVars, called, constructed, soundVars, fieldVars, busVars, swVars>>
    \/ pop /\ UNCHANGED <<animVars, called, constructed, soundVars, fieldVars, busVars, swVars>>
    \/ top /\ UNCHANGED <<animVars, called, constructed, soundVars, fieldVars, busVars, swVars>>

SpecQueue == Init /\ [][NextQueue]_vars

\* The event bus: listeners come and go, the application and the listeners
\* send events, and new listeners ask for the last event of a message.
NextBus ==
    \/ \E l \in Listeners :
            addListener(l)
            /\ UNCHANGED <<animVars, called, constructed, soundVars, fieldVars, wpqVars,
                           swVars>>
    \/ \E l \in Listeners :
            remListener(l)
            /\ UNCHANGED <<animVars, called, constructed, soundVars, fieldVars, wpqVars,
                           swVars>>
    \/ \E e \in Events :
            notify(e)
            /\ UNCHANGED <<animVars, called, constructed, soundVars, fieldVars, wpqVars,
                           swVars>>
    \/ \E l \in Listeners, does \in OnEvents :
            notify_deliver(l, does)
            /\ UNCHANGED <<animVars, called, constructed, soundVars, fieldVars, wpqVars,
                           swVars>>
    \/ notify_return
            /\ UNCHANGED <<animVars, called, constructed, soundVars, fieldVars, wpqVars,
                           swVars>>
    \/ \E m \in Messages :
            replayLast(m)
            /\ UNCHANGED <<animVars, called, constructed, soundVars, fieldVars, wpqVars,
                           swVars>>

SpecBus == Init /\ [][NextBus]_vars

\* The fuzzy switch: it is built, then turned on and off in any order.
NextSwitch ==
    \/ \E dOn \in Delays, dOff \in Delays, startOn \in BOOLEAN :
            FuzzySwitch_init(dOn, dOff, startOn)
            /\ UNCHANGED <<animVars, called, constructed, soundVars, fieldVars, wpqVars,
                           busVars>>
    \/ turn_on
            /\ UNCHANGED <<animVars, called, constructed, soundVars, fieldVars, wpqVars,
                           busVars>>
    \/ turn_off
            /\ UNCHANGED <<animVars, called, constructed, soundVars, fieldVars, wpqVars,
                           busVars>>

SpecSwitch == Init /\ [][NextSwitch]_vars

\* ------------------------------------------------------------ claims
Evals == {i \in 1..Len(log) : log[i].ev = "eval"}

Discards == {i \in 1..Len(log) : log[i].ev = "discard"}

\* The running run_triggers call has evaluated trigger t.
Evaluated(t) == \E i \in Evals : log[i].trigger = t

\* run_triggers has finished its loops and is about to return.
AtReturn == pc = "keys" /\ keysLeft = {}

\* C1: a trigger's callback is invoked at most once, and once it has been
\* invoked the trigger is in no object's trigger list and not among the
\* triggers the running call still has to evaluate.
C1_FiresAtMostOnce ==
    \A t \in TrigIds :
        /\ calls[t] <= 1
        /\ calls[t] = 1 => ~InDict(triggers, t) /\ ~InList(trigLeft, t)

\* A later run_triggers call evaluates another trigger after t has fired.
C1_Witness ==
    \E t \in TrigIds :
        /\ calls[t] = 1
        /\ ~Evaluated(t)
        /\ Evals # {}

\* C3: an evaluation at which the global frame number equals the frame number
\* the trigger last saw neither invokes the callback nor asks the object for
\* its animation state, whatever the condition; so a callback is only ever
\* invoked at a frame number the trigger had not seen.
C3_SameFrameSkips ==
    \A i \in Evals :
        /\ log[i].seen = log[i].frame => ~log[i].fired /\ ~log[i].queried
        /\ log[i].fired => log[i].seen # log[i].frame

\* A trigger whose condition holds is evaluated in a frame it has seen, in a
\* frame other than the first.
C3_Witness ==
    \E i \in Evals :
        /\ log[i].seen = log[i].frame
        /\ log[i].frame > 0
        /\ log[i].valid
        /\ log[i].kind = "End"
        /\ ~log[i].isPlaying
        /\ calls[log[i].trigger] = 0

\* C4, in every state: an object found invalid has lost its whole entry and
\* none of its triggers was evaluated; the keys still to visit are keys of the
\* dict (no KeyError); and when the call returns every trigger that was
\* registered before the call and is still listed has been evaluated.
C4_Inv ==
    /\ \A i \in Discards :
        /\ log[i].ob \notin DOMAIN triggers
        /\ \A j \in Evals : log[j].ob # log[i].ob
    /\ pc # "idle" => keysLeft \subseteq DOMAIN triggers
    /\ AtReturn =>
        \A o \in DOMAIN triggers : \A k \in 1..Len(triggers[o]) :
            triggers[o][k] <= log[1].heap => Evaluated(triggers[o][k])

\* C4, in every step: a trigger that is in no list stays out of every list and
\* its callback is not invoked.
C4_Act ==
    \A t \in TrigIds :
        ~InDict(triggers, t) => calls'[t] = calls[t] /\ ~InDict(triggers', t)

\* C4: run_triggers discards the entry of an invalid object without invoking
\* any of its callbacks and without error, goes on to evaluate the other
\* objects' triggers, and the discarded triggers never fire afterwards.
C4_InvalidObjectDiscarded == [](C4_Inv) /\ [][C4_Act]_vars

\* An object with a pending trigger is discarded, and later in the same call
\* another object's trigger fires.
C4_Witness ==
    \E i \in Discards : \E j \in Evals :
        /\ i < j
        /\ log[j].fired
        /\ \E t \in TrigIds : calls[t] = 0 /\ ~InDict(triggers, t)

\* The animation state an evaluation met satisfies the trigger's condition,
\* as the documentation of the three kinds states it.
Held(e) ==
    CASE e.kind = "End" -> ~e.isPlaying
      [] e.kind = "GTE" -> e.af >= e.threshold
      [] e.kind = "LT" -> e.af < e.threshold
      [] OTHER -> FALSE

\* The trigger had not yet seen the frame number at which it was evaluated.
NewFrame(e) == e.seen # e.frame

\* C5 as stated: an end trigger on a valid object fires in a run_triggers call
\* exactly if the layer is not playing at that call.
C5_Original ==
    \A i \in Evals :
        log[i].kind = "End" /\ log[i].valid =>
            (log[i].fired <=> ~log[i].isPlaying)

\* C5 amended: an end trigger on a valid object fires in a run_triggers call
\* exactly if the layer is not playing and the frame number differs from the
\* one the trigger last saw; once fired it is in no trigger list.
C5_EndFiresOnNewFrame ==
    \A i \in Evals :
        log[i].kind = "End" /\ log[i].valid =>
            /\ log[i].fired <=> (~log[i].isPlaying /\ NewFrame(log[i]))
            /\ log[i].fired => ~InDict(triggers, log[i].trigger)

\* An end trigger on the animated object that has seen frame 1 fires in
\* frame 2.
C5_Witness ==
    \E i \in Evals :
        /\ log[i].kind = "End"
        /\ log[i].ob \in Animated
        /\ log[i].valid
        /\ log[i].fired
        /\ log[i].seen = 1
        /\ log[i].frame = 2

\* C6 as stated: a frame trigger on a valid object fires in a run_triggers
\* call exactly if its comparison holds at that call.
C6_Original ==
    \A i \in Evals :
        log[i].kind \in {"GTE", "LT"} /\ log[i].valid =>
            (log[i].fired <=> Held(log[i]))

\* C6 amended: a frame trigger on a valid object fires in a run_triggers call
\* exactly if its comparison holds and the frame number differs from the one
\* the trigger last saw.
C6_FrameTriggerFiresOnNewFrame ==
    \A i \in Evals :
        log[i].valid =>
            /\ log[i].kind = "GTE" =>
                (log[i].fired <=>
                    (log[i].af >= log[i].threshold /\ NewFrame(log[i])))
            /\ log[i].kind = "LT" =>
                (log[i].fired <=>
                    (log[i].af < log[i].threshold /\ NewFrame(log[i])))

\* In one call, at a new frame, a GTE trigger fires on the playback frame that
\* equals its threshold and an LT trigger on the same object does not fire.
C6_Witness ==
    \E i \in Evals : \E j \in Evals :
        /\ log[i].kind = "GTE" /\ log[i].fired
        /\ log[i].af = log[i].threshold
        /\ log[j].kind = "LT" /\ ~log[j].fired /\ NewFrame(log[j])
        /\ log[i].ob = log[j].ob

\* A list of triggers is in the order the triggers were constructed.
Ascending(s) == \A i \in 1..Len(s) : \A j \in 1..Len(s) : i < j => s[i] < s[j]

C2_Original ==
    \A i \in Evals :
        /\ log[i].frame > 0
        /\ log[i].trigger <= log[1].heap
        /\ log[i].valid
        /\ Held(log[i])
        => log[i].fired

\* C2 amended, in every state: a trigger on a valid object fires at a call
\* exactly if its condition holds there and the frame number differs from the
\* one the trigger last saw (at construction or at its last evaluation), and
\* no callback is invoked twice.
C2_Inv ==
    /\ \A i \in Evals :
        log[i].valid => (log[i].fired <=> (Held(log[i]) /\ NewFrame(log[i])))
    /\ \A t \in TrigIds : calls[t] <= 1

\* Trigger t is listed for the valid object o, the running call has yet to
\* evaluate it, its condition holds and the frame number is new to it.
C2_Due(t, o) ==
    /\ t \in TrigIds
    /\ pc # "idle"
    /\ o \in DOMAIN triggers
    /\ InList(triggers[o], t)
    /\ ~invalid[o]
    /\ o \in keysLeft \/ (pc = "triggers" /\ o = curOb /\ InList(trigLeft, t))
    /\ Condition(trigObj[t], o)
    /\ trigObj[t].current_frame # frame_num

\* C2 amended, in every state of a running call: a trigger that was
\* registered before the call and is listed for a valid object has been
\* evaluated by the call or is still ahead of it, so the call does not return
\* before it has evaluated every such trigger.
C2_Pending ==
    pc # "idle" =>
        \A o \in DOMAIN triggers : \A k \in 1..Len(triggers[o]) :
            LET t == triggers[o][k]
            IN  (t <= log[1].heap /\ ~invalid[o]) =>
                    \/ Evaluated(t)
                    \/ o \in keysLeft
                    \/ (pc = "triggers" /\ o = curOb /\ InList(trigLeft, t))

\* C2 amended, in every step: a trigger leaves the registry only when its
\* callback is invoked or when its object is invalid.
C2_Act ==
    \A o \in DOMAIN triggers : \A k \in 1..Len(triggers[o]) :
        LET t == triggers[o][k]
        IN  ~InDict(triggers', t) => (calls'[t] = calls[t] + 1 \/ invalid[o])

\* C2 amended: with run_triggers called once per frame, a trigger whose
\* condition holds at a call made at a frame number it has not seen has its
\* callback invoked during that call unless its object is destroyed first,
\* exactly once over its lifetime, and never at a call where its condition
\* does not hold.
C2_FiresOnceWhenDue == [](C2_Inv /\ C2_Pending) /\ [][C2_Act]_vars

\* A call that has started reaches the evaluation of every trigger that is
\* due in it: the trigger fires, or its object is destroyed first.
C2_CallReachesDue ==
    \A t \in 1..MaxTriggers : \A o \in Obs :
        C2_Due(t, o) ~> (invalid[o] \/ (t \in TrigIds /\ calls[t] = 1))

\* At a frame after the first, a trigger that was evaluated in an earlier
\* frame fires.
C2_Witness ==
    \E i \in Evals :
        /\ log[i].fired
        /\ log[i].valid
        /\ log[i].frame = 2
        /\ log[i].seen = 1
        /\ called

\* The handle h is tracked in the list hs of records.
Tracks(hs, h) == \E i \in 1..Len(hs) : hs[i].handle = h

\* Some record of hs has this identifying key.
TracksIdent(hs, ident) == \E i \in 1..Len(hs) : hs[i].ident = ident

\* C8, in every state: no two entries of _handles have the same key.
C8_Inv ==
    \A i \in 1..Len(handles) : \A j \in 1..Len(handles) :
        i # j => handles[i].ident # handles[j].ident

\* C8, in every step: _handles gains at most one entry, it gains one exactly
\* when a playback is started, and the playback started is for a key that was
\* not tracked.
C8_Act ==
    /\ Len(handles') <= Len(handles) + 1
    /\ Len(audHandle') > Len(audHandle) <=> Len(handles') > Len(handles)
    /\ Len(audHandle') > Len(audHandle) =>
        /\ Len(audHandle') = Len(audHandle) + 1
        /\ ~TracksIdent(handles, audHandle'[Len(audHandle')].sample)
        /\ handles' = Append(handles,
                HandleBXT(audHandle'[Len(audHandle')].sample, Len(audHandle'),
                          audHandle'[Len(audHandle')].sample))

\* C8: _handles holds at most one entry per key, and a play_sample for a
\* tracked key starts no playback and adds no entry.
C8_OneHandlePerKey == [](C8_Inv) /\ [][C8_Act]_vars

\* play_sample has just been called for a key that is tracked, after an
\* earlier playback of a key was removed and the key played again.
C8_Witness ==
    /\ lastOp = Called("play_sample", "dropped")
    /\ Len(handles) = 1
    /\ Len(audHandle) = 2

\* The index of the entry of hs that stop(k) acts on.
FirstWithIdent(hs, k) ==
    CHOOSE i \in 1..Len(hs) :
        hs[i].ident = k /\ \A j \in 1..(i - 1) : hs[j].ident # k

\* The list s without its i-th element.
Without(s, i) == SubSeq(s, 1, i - 1) \o SubSeq(s, i + 1, Len(s))

\* What C9 says of a call stop(k).
C9_Post(k) ==
    IF TracksIdent(handles, k)
    THEN LET i == FirstWithIdent(handles, k)
             h == handles[i].handle
         IN  /\ handles' = Without(handles, i)
             /\ ~audHandle'[h].status
             /\ Tracks(localisable_handles, h) =>
                    audHandle'[h].stops = audHandle[h].stops + 1
             /\ lastOp' = Called("stop", "stopped")
             /\ \A g \in DOMAIN audHandle : g # h => audHandle'[g] = audHandle[g]
             /\ localisable_handles' = localisable_handles
    ELSE /\ UNCHANGED <<handles, localisable_handles, audHandle>>
         /\ lastOp' = Called("stop", "noop")

\* C9: stop(key) on a tracked key stops that key's handle and removes its
\* entry from _handles, the other entries staying as they are and in order;
\* on an untracked key it stops nothing and changes neither list.
C9_StopRemovesOnlyKey == [][\A k \in Filenames : stop(k) => C9_Post(k)]_vars

\* stop has just stopped the positional playback of one key while another key
\* stays tracked.
C9_Witness ==
    /\ lastOp = Called("stop", "stopped")
    /\ Len(handles) = 1
    /\ \E i \in 1..Len(localisable_handles) :
        LET h == localisable_handles[i].handle
        IN  /\ ~Tracks(handles, h)
            /\ audHandle[h].stops = 1
            /\ ~audHandle[h].status
    /\ audHandle[handles[1].handle].status

\* The records of s that satisfy Keep, in their order.
Kept(s, Keep(_)) == SelectSeq(s, Keep)

C11_Inv ==
    \A f \in Filenames :
        /\ printed[f] <= 1
        /\ printed[f] = 1 <=> f \in warnings_printed

\* C11, in every step: a play_sample whose aud.Factory or dev.play raises
\* aud.error returns through the except clause with both handle lists and
\* the playbacks as they were, and the filename remembered.
C11_Act ==
    \A f \in Filenames, o \in Obs \cup {NoOb} :
        play_sample(f, o, "open") /\ ~already_playing(handles, f) =>
            /\ lastOp' = Called("play_sample", "failed")
            /\ handles' = handles
            /\ localisable_handles' = localisable_handles
            /\ audHandle' = audHandle
            /\ f \in warnings_printed'
            /\ printed'[f] = 1
            /\ \A g \in Filenames \ {f} : printed'[g] = printed[g]

\* C11: when opening or starting the sample raises aud.error, play_sample
\* returns normally, the tracked-handle lists are as before the call, and over
\* any sequence of calls the diagnostic of a filename is printed at most once.
C11_OpenErrorSkipped == [](C11_Inv) /\ [][C11_Act]_vars

\* play_sample has just failed for a filename while another key is tracked,
\* and the diagnostics of both filenames have been printed.
C11_Witness ==
    /\ lastOp = Called("play_sample", "failed")
    /\ Len(handles) = 1
    /\ \A f \in Filenames : printed[f] = 1

\* The latest call into the force field has evaluated get_magnitude.
Magnitude_returned ==
    \/ ffLast.op = "get_magnitude"
    \/ ffLast.op = "touchedSingle" /\ ffLast.did = "applied"

FracLE(a, b) == ~FracLT(b, a)

\* C12: the value get_magnitude returns is FFMagnitude times a fraction
\* between 0 and 1 (it lies between 0 and FFMagnitude, on the side of
\* FFMagnitude's sign), and it is FFMagnitude itself at distance FFDist1,
\* whatever the order of FFDist1 and FFDist2 and however large the distance.
C12_EffectClamped ==
    Magnitude_returned =>
        LET m == FracOf(ff.FFMagnitude)
            r == ffLast.result
        IN  /\ IF ff.FFMagnitude >= 0
               THEN FracLE(FracOf(0), r) /\ FracLE(r, m)
               ELSE FracLE(m, r) /\ FracLE(r, FracOf(0))
            /\ ffLast.distance = ff.FFDist1 => r = m

\* get_magnitude has returned zero for a distance beyond FFDist2 of a field
\* whose FFDist1 is greater than its FFDist2.
C12_Witness ==
    /\ ffLast.op = "get_magnitude"
    /\ ff.FFDist1 > ff.FFDist2
    /\ ffLast.distance > ff.FFDist1 + ff.FFDist2
    /\ ffLast.result = FracOf(0)

\* The square of the actor's distance from the field origin.
ActorDistSq ==
    actorPos[1] * actorPos[1] + actorPos[2] * actorPos[2]
        + actorPos[3] * actorPos[3]

\* C13 as stated: touchedSingle leaves the velocity of an actor at a distance
\* of FFDist2 or more from the field origin as it was.
C13_Original ==
    ffLast.op = "touchedSingle" /\ ActorDistSq >= ff.FFDist2 * ff.FFDist2 =>
        linV = ffLast.before

\* C14: below FFDist1 the value get_magnitude returns is FFMagnitude times
\* distance/FFDist1 for a Linear field and FFMagnitude times the square of
\* distance/FFDist1 for the other classes.
C14_LinearRamp ==
    Magnitude_returned /\ ffLast.distance < ff.FFDist1 =>
        LET d == ffLast.distance
        IN  ffLast.result =
                IF ff.kind = "Linear"
                THEN Frac(ff.FFMagnitude * d, ff.FFDist1)
                ELSE Frac(ff.FFMagnitude * d * d, ff.FFDist1 * ff.FFDist1)

\* get_magnitude of a Linear field has returned two fifths of FFMagnitude
\* for a distance of two fifths of FFDist1.
C14_Witness ==
    /\ ffLast.op = "get_magnitude"
    /\ ff.kind = "Linear"
    /\ ff.FFDist1 = 5
    /\ ffLast.distance = 2
    /\ ffLast.result = Frac(ff.FFMagnitude * 2, 5)

\* The position of x in the list s that holds it.
Pos(s, x) == CHOOSE i \in 1..Len(s) : s[i] = x

\* The list s without x, in order.
Others(s, x) == SelectSeq(s, LAMBDA y : y # x)

\* Item y is above item x by the queue's order: greater priority or, at
\* equal priority, pushed later.
Above(y, x) ==
    \/ priorities[y] > priorities[x]
    \/ priorities[y] = priorities[x] /\ Pos(pushOrder, y) > Pos(pushOrder, x)

\* C15, in every state: the priority map holds exactly the queued items,
\* and from index 0 upwards each item is above the one before it.
C15_Inv ==
    /\ DOMAIN priorities = {queue[i] : i \in 1..Len(queue)}
    /\ \A a \in 1..Len(queue) : \A b \in 1..Len(queue) :
        a < b => Above(queue[b], queue[a])

\* C15, in every step: push returns the index at which the item now is.
C15_Act ==
    \A it \in Items, p \in Priorities :
        push(it, p) =>
            /\ wpqLast'.index \in 0..(Len(queue') - 1)
            /\ queue'[wpqLast'.index + 1] = it

\* C15: after any sequence of push, discard and pop the queue is ordered by
\* non-decreasing priority from the bottom to the top, with the later pushed
\* of two items of equal priority higher, and push returns the index at which
\* it inserted the item.
C15_QueueOrdered == [](C15_Inv) /\ [][C15_Act]_vars

\* push has just inserted an item in the middle of the queue, above an item
\* of the same priority and below one of greater priority.
C15_Witness ==
    /\ wpqLast.op = "push"
    /\ wpqLast.index = 1
    /\ Len(queue) = 3
    /\ priorities[queue[1]] = priorities[queue[2]]
    /\ priorities[queue[3]] > priorities[queue[2]]

\* C16: a push of an item that is in the queue leaves the queue's length as
\* it was, the item in it exactly once with the new priority, and the other
\* items in their order and with their priorities.
C16_RepushMoves ==
    [][\A it \in Items, p \in Priorities :
        push(it, p) /\ InList(queue, it) =>
            /\ Len(queue') = Len(queue)
            /\ Cardinality({i \in 1..Len(queue') : queue'[i] = it}) = 1
            /\ priorities'[it] = p
            /\ Others(queue', it) = Others(queue, it)
            /\ \A x \in DOMAIN priorities \ {it} :
                    priorities'[x] = priorities[x]]_vars

\* An item that was at the top of a queue of three has just been pushed
\* again with a smaller priority and is now at the bottom.
C16_Witness ==
    /\ wpqLast.op = "push"
    /\ wpqLast.had
    /\ wpqLast.index = 0
    /\ Len(queue) = 3
    /\ priorities[queue[1]] < priorities[queue[2]]
    /\ Pos(pushOrder, queue[1]) = 3

\* C17: pop on a queue that is not empty returns the item at the top, which
\* is above every other item and is what top() returns, and removes it and
\* its priority; on an empty queue it raises IndexError and leaves the queue
\* and the priority map as they were.
C17_PopTakesTop ==
    [][pop =>
        IF queue = <<>>
        THEN /\ wpqLast'.raised = "IndexError"
             /\ queue' = queue
             /\ priorities' = priorities
        ELSE LET it == wpqLast'.ret
             IN  /\ wpqLast'.raised = "none"
                 /\ InList(queue, it)
                 /\ \A x \in DOMAIN priorities \ {it} : Above(it, x)
                 /\ it = queue[Len(queue)]
                 /\ queue' = Others(queue, it)
                 /\ DOMAIN priorities' = DOMAIN priorities \ {it}
                 /\ \A x \in DOMAIN priorities' :
                        priorities'[x] = priorities[x]]_vars

\* pop has just returned an item and left two items in the queue.
C17_Witness ==
    /\ wpqLast.op = "pop"
    /\ wpqLast.raised = "none"
    /\ wpqLast.ret \in Items
    /\ wpqLast.ret \notin DOMAIN priorities
    /\ Len(queue) = 2

\* C18 as stated: replayLast(target, m) calls target.onEvent exactly once
\* with the event of the latest notify call made with message m, nested calls
\* included, and not at all if no such call was made.
C18_Original ==
    [][\A m \in Messages :
        replayLast(m) =>
            IF lastSent[m] = NoEvent
            THEN busLast'.onEvents = 0
            ELSE busLast'.onEvents = 1 /\ busLast'.event = lastSent[m]]_vars

\* C19: is_on() changes from false to true on a turn_on() call exactly when
\* the call completes delayOn consecutive turn_on() calls since the last
\* turn_off() or the construction, from true to false on a turn_off() call
\* exactly when the call completes delayOff consecutive turn_off() calls
\* since the last turn_on() or the construction, and on no other call.
C19_SwitchesAfterDelay ==
    [][/\ turn_on =>
            /\ sw'.on # sw.on <=> (~sw.on /\ onRun' = sw.delayOn)
            /\ sw.on => sw'.on
       /\ turn_off =>
            /\ sw'.on # sw.on <=> (sw.on /\ offRun' = 0 - sw.delayOff)
            /\ ~sw.on => ~sw'.on]_vars

\* A switch with delays of three and two that was built off has just been
\* turned on by the third turn_on() of a run.
C19_Witness ==
    /\ swLast = SwitchCall("turn_on", FALSE)
    /\ sw.on
    /\ sw.delayOn = 3
    /\ sw.delayOff = 0 - 2
    /\ onRun = 3

\* Trigger t was registered by a callback that the running call invoked.
ByCallback(t) ==
    \E i \in Evals :
        log[i].fired /\ log[i].cb.op = "add_trigger_end" /\ t = log[i].heap + 1

Positioned(r) == ~invalid[r.ob] /\ audHandle[r.handle].status

\* C21, in every state between calls: the audio device is not locked.
C21_Inv == devLocked = 0

\* C21, in every step: an update() that returns has set the location of
\* each Handle3D record with a valid owner and a running playback to the
\* owner's worldPosition and has read the position of exactly those owners;
\* an update(), returning or raising, has read the position of no invalid
\* object, has called stop on no handle, has left the playback of a
\* destroyed owner as it was, and has released the device lock.
C21_Act ==
    /\ update =>
        /\ \A i \in 1..Len(localisable_handles) :
            LET r == localisable_handles[i]
            IN  Positioned(r) =>
                    /\ audHandle'[r.handle].location = worldPosition[r.ob]
                    /\ Tracks(localisable_handles', r.handle)
        /\ updLast'.reads =
                {localisable_handles[i].ob :
                    i \in {j \in 1..Len(localisable_handles) :
                              Positioned(localisable_handles[j])}}
        /\ ~updLast'.raised
    /\ update \/ (\E k \in 1..MaxHandles : update_raises(k)) =>
        /\ \A o \in updLast'.reads : ~invalid[o]
        /\ \A h \in DOMAIN audHandle :
            /\ audHandle'[h].stops <= audHandle[h].stops
            /\ audHandle[h].status /\ audHandle[h].anchor # NoOb
                    /\ invalid[audHandle[h].anchor]
                => audHandle'[h] = audHandle[h]
        /\ devLocked' = 0

\* C21: update() sets the location of every positional handle whose owner is
\* valid and whose playback runs to the owner's current world position, never
\* reads the position of an invalid object, never calls stop on a handle
\* whose owner was destroyed, and releases the audio device lock whether
\* _update returns or raises.
C21_UpdateMovesLiveHandles == [](C21_Inv) /\ [][C21_Act]_vars

\* update() has just returned: it moved the playback of an object that had
\* moved since play_sample, and it read only that object's position, the
\* playback of a destroyed object still running, never stopped, where it was.
C21_Witness ==
    /\ lastOp = Called("update", "done")
    /\ devLocked = 0
    /\ \E h \in DOMAIN audHandle : \E g \in DOMAIN audHandle :
        /\ audHandle[h].anchor # NoOb
        /\ ~invalid[audHandle[h].anchor]
        /\ updLast = Updated({audHandle[h].anchor}, FALSE)
        /\ Tracks(localisable_handles, h)
        /\ audHandle[h].location = <<1, 0, 0>>
        /\ audHandle[h].location = worldPosition[audHandle[h].anchor]
        /\ audHandle[g].anchor # NoOb
        /\ invalid[audHandle[g].anchor]
        /\ audHandle[g].status
        /\ audHandle[g].stops = 0
        /\ audHandle[g].location = <<0, 0, 0>>
        /\ ~Tracks(localisable_handles, g)

\* The two cases in which C22 has touchedSingle leave the velocity alone.
C22_Skips ==
    \/ manhattan_dist(actorPos) > ff.FFDist2
    \/ ff.FFZCut /\ actorPos[3] > 0

\* C22, in every step: a touchedSingle call ends without setLinearVelocity,
\* the velocity as it was, when the Manhattan distance of the actor exceeds
\* FFDist2 or FFZCut is set and the actor's local z is positive; in every
\* other case it sets the velocity once, to the velocity before the call
\* plus one contribution: along the force direction, of length
\* get_magnitude(dist) * factor, and zero where the direction is zero.
C22_Act ==
    \A f \in Factors :
        touchedSingle(f) =>
            /\ ffLast'.op = "touchedSingle"
            /\ ffLast'.before = linV
            /\ IF C22_Skips
               THEN /\ ffLast'.did \in {"far", "zcut"}
                    /\ linV' = linV
               ELSE LET vec == get_force_direction(ff.kind, actorPos)
                        dist == magnitude(vec)
                        accel == FracMul(get_magnitude(ff, dist), FracOf(f))
                    IN  /\ ffLast'.did = "applied"
                        /\ ffLast'.distance = dist
                        /\ ffLast'.result = get_magnitude(ff, dist)
                        /\ \A i \in 1..3 :
                            LET delta == FracSub(linV'[i], linV[i])
                            IN  IF dist = 0 THEN delta = FracOf(0)
                                ELSE FracMul(delta, FracOf(dist)) =
                                        FracMul(accel, FracOf(vec[i]))

\* C22: touchedSingle leaves the actor's linear velocity untouched whenever
\* the Manhattan distance from the field origin to the actor exceeds FFDist2,
\* or the field has FFZCut set and the actor's local z is above 0; in every
\* other case it adds exactly one acceleration contribution to the velocity.
C22_TouchedSingleSkipsOrAdds == [][C22_Act]_vars

\* touchedSingle has just left a moving actor alone that is within FFDist2
\* of a field with FFZCut but above its plane.
C22_Witness ==
    /\ ffLast.op = "touchedSingle"
    /\ ffLast.did = "zcut"
    /\ ff.FFZCut
    /\ actorPos = <<0, 0, 2>>
    /\ manhattan_dist(actorPos) <= ff.FFDist2
    /\ ff.FFMagnitude # 0
    /\ linV = Vector(<<1, 0, -1>>)
    /\ linV = ffLast.before

\* C23 as stated: in a run_triggers call no trigger has its condition
\* evaluated against, or its callback fired for, an object that is invalid at
\* that moment, also when an earlier callback of the same call destroyed it.
C23_Original ==
    \A i \in Evals : log[i].queried \/ log[i].fired => log[i].valid

\* C24, in every state of a run_triggers call: no evaluation made at the
\* frame number of the trigger's construction has invoked the callback or
\* asked for the animation state.
C24_Inv ==
    \A i \in Evals :
        constructed[log[i].trigger].frame = log[i].frame =>
            ~log[i].fired /\ ~log[i].queried

\* C24, in every step: a callback is invoked only at a frame number other
\* than the one of its trigger's construction, and a trigger that is
\* constructed has recorded the frame number of that moment.
C24_Act ==
    /\ \A t \in TrigIds :
        calls'[t] > calls[t] => constructed[t].frame # frame_num
    /\ Len(trigObj') > Len(trigObj) =>
        /\ trigObj'[Len(trigObj')].current_frame = frame_num
        /\ calls'[Len(trigObj')] = 0

Running(r) == audHandle[r.handle].status

\* C25 as stated: in every state every handle of _localisable_handles is
\* tracked in _handles, and no two records of _localisable_handles are for
\* the same key.
C25_Original ==
    /\ \A i \in 1..Len(localisable_handles) :
        Tracks(handles, localisable_handles[i].handle)
    /\ \A i \in 1..Len(localisable_handles) :
        \A j \in 1..Len(localisable_handles) :
            i # j => localisable_handles[i].source # localisable_handles[j].source

\* C25 amended, in every state: every record of _localisable_handles whose
\* playback runs has its handle tracked in _handles under the same key, and
\* no two records whose playbacks run are for the same key.
C25_Inv ==
    /\ \A i \in 1..Len(localisable_handles) :
        LET r == localisable_handles[i]
        IN  Running(r) =>
                \E k \in 1..Len(handles) :
                    handles[k].handle = r.handle /\ handles[k].ident = r.source
    /\ \A i \in 1..Len(localisable_handles) :
        \A j \in 1..Len(localisable_handles) :
            /\ i # j
            /\ Running(localisable_handles[i])
            /\ Running(localisable_handles[j])
            => localisable_handles[i].source # localisable_handles[j].source

\* C25 amended, in every step: when update() returns, every handle of
\* _localisable_handles is tracked in _handles and no two of its records are
\* for the same key.
C25_Act ==
    update =>
        /\ \A i \in 1..Len(localisable_handles') :
            Tracks(handles', localisable_handles'[i].handle)
        /\ \A i \in 1..Len(localisable_handles') :
            \A j \in 1..Len(localisable_handles') :
                i # j => localisable_handles'[i].source #
                            localisable_handles'[j].source

\* C25 amended: the records of _localisable_handles whose playback runs are
\* tracked in _handles, at most one per key, at all times, and all records
\* of _localisable_handles are once update() has returned; the record of a
\* stopped or ended playback stays in _localisable_handles until then.
C25_PositionalWithinTracked == [](C25_Inv) /\ [][C25_Act]_vars

\* A key was played on an object, stopped, and played again before any
\* update(): _localisable_handles holds two records of the key, the stopped
\* one no longer tracked in _handles.
C25_Witness ==
    /\ lastOp = Called("play_sample", "started")
    /\ Len(localisable_handles) = 2
    /\ Len(handles) = 1
    /\ localisable_handles[1].source = localisable_handles[2].source
    /\ ~Running(localisable_handles[1])
    /\ audHandle[localisable_handles[1].handle].stops = 1
    /\ ~Tracks(handles, localisable_handles[1].handle)
    /\ Running(localisable_handles[2])
    /\ Tracks(handles, localisable_handles[2].handle)

====
